---- MODULE Spec2Model ----
(***************************************************************************)
(* The quiz server: the Express handlers of server/routes.ts over the      *)
(* Drizzle/Postgres store of server/storage.ts (DatabaseStorage).          *)
(* Every `await` of a handler is one store step; handlers of different     *)
(* requests interleave between their steps.                                *)
(***************************************************************************)
EXTENDS Integers, Sequences, FiniteSets, TLC

\* ------------------------------------------------------------------ bounds
MaxReq == 2            \* requests that can be in flight at once
MaxQuestions == 2      \* questions ever created
MaxSubmissions == 2    \* submissions ever inserted
MaxParticipants == 2   \* participants ever created
MaxEpoch == 1          \* resets ever started
MaxClock == 2          \* clock ticks ever taken
MaxCrowd == 52         \* earlier answers a store may start with
BoardCrowd == 7        \* earlier answers of a question of the board workload

\* ------------------------------------------------------------------ values
Null == -1                       \* answerIndex: null / scheduledTime: none
NoReason == "undefined"          \* submit without a `reason`
TimesPerDay == 2                 \* wall-clock slots of one calendar day

Req == 1..MaxReq
Names == 1..2
Devices == 1..2
QuestionIds == 1..MaxQuestions
AnswerIndexes == {Null, 0, 1}
Reasons == {NoReason, "tab_switch"}
CorrectIndexes == {1}
Orders == {1, 2}

VARIABLES
    settings,        \* table settings: sequence of currentResetId, row id = index
    questions,       \* table questions: set of rows
    nextQid,         \* serial of questions.id
    scheduledTimeOf, \* question id -> the scheduledTime the admin's form sent
    submissions,     \* table submissions: set of rows
    nextSid,         \* serial of submissions.id (also the insertion timestamp)
    participants,    \* table participants: set of rows
    nextPid,         \* serial of participants.id
    clock,           \* server wall clock, in slots since the first day
    pc,              \* request slot -> position in its handler
    loc,             \* request slot -> the handler's locals
    out,             \* the last response sent
    serial           \* TRUE: the server is given one request at a time

vars == <<settings, questions, nextQid, scheduledTimeOf, submissions, nextSid,
          participants, nextPid, clock, pc, loc, out, serial>>

store == <<settings, questions, nextQid, scheduledTimeOf, submissions, nextSid,
           participants, nextPid>>

\* ------------------------------------------------------------------ clock
\* getTodayDate(): the calendar date of the server clock.
getTodayDate == clock \div TimesPerDay
\* The wall-clock time of day (HH:mm) of the server clock.
TimeOfDay == clock % TimesPerDay
Dates == {0, 1}
Times == 0..(TimesPerDay - 1)

\* ------------------------------------------------------------------ locals
NoLoc == [op |-> "idle", name |-> 0, deviceId |-> 0, pid |-> 0, qid |-> 0,
          answerIndex |-> Null, reason |-> NoReason, correct |-> Null,
          answerOrder |-> 0, prevScore |-> 0, resetId |-> 0, date |-> 0,
          type |-> "daily", order |-> 0, isActive |-> FALSE,
          scheduledTime |-> Null, rowId |-> 0, dateGiven |-> FALSE,
          participantCount |-> 0, submissionsToday |-> 0]

\* A response without a JSON object: res.json(null), or none sent.
NoBody == [null |-> TRUE]

NoOut == [op |-> "none", code |-> 0, pid |-> 0, qid |-> 0, val |-> 0,
          why |-> "", rows |-> {}, body |-> NoBody, ranked |-> << >>]

Idle(r) == pc[r] = "idle"
InFlight(op) == Cardinality({r \in Req : loc[r].op = op})

\* A request may start when the server takes requests concurrently, or when
\* no other request is being handled.
MayStart(r) ==
    /\ Idle(r)
    /\ serial => \A s \in Req : Idle(s)

Begin(r, first, locals) ==
    /\ MayStart(r)
    /\ pc' = [pc EXCEPT ![r] = first]
    /\ loc' = [loc EXCEPT ![r] = locals]
    /\ out' = NoOut

Goto(r, next, locals) ==
    /\ pc' = [pc EXCEPT ![r] = next]
    /\ loc' = [loc EXCEPT ![r] = locals]
    /\ out' = NoOut

\* res.json(...) / res.status(...).json(...): the handler ends. `out` holds
\* the response in the state the responding step leaves; any other step clears it.
Respond(r, response) ==
    /\ pc' = [pc EXCEPT ![r] = "idle"]
    /\ loc' = [loc EXCEPT ![r] = NoLoc]
    /\ out' = response

\* ------------------------------------------------------------------ settings
\* db.select().from(settings).limit(1): some row (no ORDER BY), or none.
SettingRows == 1..Len(settings)

\* Where a handler goes on once getCurrentResetId has returned.
AfterResetId(op) ==
    CASE op = "daily" -> "daily_select"
      [] op = "create" -> "create_insert"
      [] op = "submit" -> "submit_insert"
      [] op = "reset" -> "reset_select"
      [] op = "board" -> "board_query"
      [] op = "stats" -> "stats_participants"
      [] op = "export" -> "export_query"

\* getCurrentResetId, the select: returns the row's currentResetId, or goes on
\* to insert the settings record when there is none.
GetCurrentResetIdSelect(r) ==
    /\ pc[r] = "epoch_select"
    /\ IF settings = << >>
         THEN Goto(r, "epoch_insert", loc[r])
         ELSE \E i \in SettingRows :
                Goto(r, AfterResetId(loc[r].op),
                     [loc[r] EXCEPT !.resetId = settings[i]])
    /\ UNCHANGED <<store, clock, serial>>

\* getCurrentResetId, the lazy insert of { currentResetId: 0 }.
GetCurrentResetIdInsert(r) ==
    /\ pc[r] = "epoch_insert"
    /\ settings' = Append(settings, 0)
    /\ Goto(r, AfterResetId(loc[r].op), [loc[r] EXCEPT !.resetId = 0])
    /\ UNCHANGED <<questions, nextQid, scheduledTimeOf, submissions, nextSid,
                   participants, nextPid, clock, serial>>

\* POST /api/admin/reset -> storage.performReset()
StartReset(r) ==
    /\ \A i \in SettingRows : settings[i] + InFlight("reset") < MaxEpoch
    /\ Begin(r, "epoch_select", [NoLoc EXCEPT !.op = "reset"])
    /\ UNCHANGED <<store, clock, serial>>

\* performReset: the second select of the settings row.
ResetSelect(r) ==
    /\ pc[r] = "reset_select"
    /\ IF settings = << >>
         THEN Goto(r, "reset_write", [loc[r] EXCEPT !.rowId = 0])
         ELSE \E i \in SettingRows :
                Goto(r, "reset_write", [loc[r] EXCEPT !.rowId = i])
    /\ UNCHANGED <<store, clock, serial>>

\* A reset that forgets the increment.
NewResetIdStale(currentId) == currentId

\* const newId = currentId + 1
NewResetId(currentId) == currentId + 1

\* The settings table once currentResetId = newId is written to the row the
\* second select found (inserted when it found none).
SettingsAfterReset(rowId, newId) ==
    IF rowId = 0 THEN Append(settings, newId)
    ELSE [settings EXCEPT ![rowId] = newId]

\* A reset that also moves the questions into the new epoch.
ResetWriteRetag(r) ==
    /\ pc[r] = "reset_write"
    /\ settings' = SettingsAfterReset(loc[r].rowId, NewResetId(loc[r].resetId))
    /\ questions' = {[q EXCEPT !.resetId = NewResetId(loc[r].resetId)] :
                     q \in questions}
    /\ Respond(r, [NoOut EXCEPT !.op = "reset", !.code = 200,
                                !.val = NewResetId(loc[r].resetId)])
    /\ UNCHANGED <<nextQid, scheduledTimeOf, submissions, nextSid,
                   participants, nextPid, clock, serial>>

\* performReset: update (or insert) currentResetId = currentId + 1; return it.
ResetWrite(r) ==
    /\ pc[r] = "reset_write"
    /\ settings' = SettingsAfterReset(loc[r].rowId, NewResetId(loc[r].resetId))
    /\ Respond(r, [NoOut EXCEPT !.op = "reset", !.code = 200,
                                !.val = NewResetId(loc[r].resetId)])
    /\ UNCHANGED <<questions, nextQid, scheduledTimeOf, submissions, nextSid,
                   participants, nextPid, clock, serial>>

\* ------------------------------------------------------------------ participants
getParticipantByName(name) == {p \in participants : p.name = name}
getParticipantByDeviceId(deviceId) == {p \in participants : p.deviceId = deviceId}

IdentifyOk(p) == [NoOut EXCEPT !.op = "identify", !.code = 200, !.pid = p.id]
IdentifyForbidden(why) == [NoOut EXCEPT !.op = "identify", !.code = 403, !.why = why]

\* POST /api/identify { name, deviceId }
StartIdentify(r, name, deviceId) ==
    /\ nextPid + InFlight("identify") <= MaxParticipants
    /\ Begin(r, "identify_byName",
             [NoLoc EXCEPT !.op = "identify", !.name = name, !.deviceId = deviceId])
    /\ UNCHANGED <<store, clock, serial>>

\* getParticipantByName, then the device check and the ban check of a known name.
IdentifyByName(r) ==
    /\ pc[r] = "identify_byName"
    /\ IF getParticipantByName(loc[r].name) = {}
         THEN Goto(r, "identify_byDevice", loc[r])
         ELSE \E p \in getParticipantByName(loc[r].name) :
                Respond(r, IF p.deviceId # loc[r].deviceId
                             THEN IdentifyForbidden("name_taken")
                             ELSE IF p.isBanned THEN IdentifyForbidden("banned")
                             ELSE IdentifyOk(p))
    /\ UNCHANGED <<store, clock, serial>>

\* getParticipantByDeviceId for a new name.
IdentifyByDevice(r) ==
    /\ pc[r] = "identify_byDevice"
    /\ IF getParticipantByDeviceId(loc[r].deviceId) = {}
         THEN Goto(r, "identify_create", loc[r])
         ELSE Respond(r, IdentifyForbidden("device_taken"))
    /\ UNCHANGED <<store, clock, serial>>

\* createParticipant({ name, deviceId }); isBanned defaults to false.
IdentifyCreate(r) ==
    /\ pc[r] = "identify_create"
    /\ LET p == [id |-> nextPid, name |-> loc[r].name,
                 deviceId |-> loc[r].deviceId, isBanned |-> FALSE] IN
       /\ participants' = participants \cup {p}
       /\ nextPid' = nextPid + 1
       /\ Respond(r, IdentifyOk(p))
    /\ UNCHANGED <<settings, questions, nextQid, scheduledTimeOf, submissions,
                   nextSid, clock, serial>>

\* ------------------------------------------------------------------ questions
\* A select that lost its where clause.
getQuestionAnyRow(id) == questions

getQuestion(id) == {q \in questions : q.id = id}

\* POST /api/admin/questions: the body the admin form sends. insertQuestionSchema
\* has no scheduledTime (and no resetId) key, so the parse drops them.
StartCreateQuestion(r, quizDate, order, isActive, scheduledTime) ==
    /\ nextQid + InFlight("create") <= MaxQuestions
    /\ Begin(r, "epoch_select",
             [NoLoc EXCEPT !.op = "create", !.date = quizDate, !.order = order,
                           !.isActive = isActive, !.scheduledTime = scheduledTime,
                           !.correct = CHOOSE c \in CorrectIndexes : TRUE])
    /\ UNCHANGED <<store, clock, serial>>

\* createQuestion: insert { ...question, resetId }.
CreateQuestionInsert(r) ==
    /\ pc[r] = "create_insert"
    /\ LET q == [id |-> nextQid, quizDate |-> loc[r].date, order |-> loc[r].order,
                 isActive |-> loc[r].isActive,
                 correctAnswerIndex |-> loc[r].correct,
                 resetId |-> loc[r].resetId] IN
       /\ questions' = questions \cup {q}
       /\ nextQid' = nextQid + 1
       /\ scheduledTimeOf' = [scheduledTimeOf EXCEPT ![q.id] = loc[r].scheduledTime]
       /\ Respond(r, [NoOut EXCEPT !.op = "create", !.code = 201, !.qid = q.id])
    /\ UNCHANGED <<settings, submissions, nextSid, participants, nextPid,
                   clock, serial>>

\* The body {} of a PATCH: no column sent.
NoUpdates == << >>

\* update(questions).set(updates): each column sent replaces the row's; id and
\* resetId are no keys of insertQuestionSchema.partial(), so the parse drops
\* them. `updates` is a record of the columns sent.
Updated(q, updates) ==
    [id |-> q.id,
     quizDate |-> IF "quizDate" \in DOMAIN updates
                    THEN updates.quizDate ELSE q.quizDate,
     order |-> IF "order" \in DOMAIN updates THEN updates.order ELSE q.order,
     isActive |-> IF "isActive" \in DOMAIN updates
                    THEN updates.isActive ELSE q.isActive,
     correctAnswerIndex |-> IF "correctAnswerIndex" \in DOMAIN updates
                              THEN updates.correctAnswerIndex
                              ELSE q.correctAnswerIndex,
     resetId |-> q.resetId]

\* res.json(q) of an update: the row returned, or no body when no row has the id.
UpdateOut(id, updates) ==
    IF getQuestion(id) = {} THEN [NoOut EXCEPT !.op = "update", !.code = 200]
    ELSE [NoOut EXCEPT !.op = "update", !.code = 200, !.qid = id,
                       !.body = Updated(CHOOSE q \in getQuestion(id) : TRUE,
                                        updates)]

\* PATCH /api/admin/questions/:id -> storage.updateQuestion(id, updates): one
\* store step. A set() without a column throws, and the handler answers 500.
UpdateQuestion(r, id, updates) ==
    /\ MayStart(r)
    /\ IF DOMAIN updates = {}
         THEN /\ questions' = questions
              /\ out' = [NoOut EXCEPT !.op = "update", !.code = 500]
         ELSE /\ questions' = {IF q.id = id THEN Updated(q, updates) ELSE q :
                               q \in questions}
              /\ out' = UpdateOut(id, updates)
    /\ UNCHANGED <<settings, nextQid, scheduledTimeOf, submissions, nextSid,
                   participants, nextPid, clock, pc, loc, serial>>

\* DELETE /api/admin/questions/:id
StartDeleteQuestion(r, id) ==
    /\ Begin(r, "delete_submissions", [NoLoc EXCEPT !.op = "delete", !.qid = id])
    /\ UNCHANGED <<store, clock, serial>>

\* deleteSubmissionsByQuestion(id)
DeleteSubmissionsByQuestion(r) ==
    /\ pc[r] = "delete_submissions"
    /\ submissions' = {s \in submissions : s.questionId # loc[r].qid}
    /\ Goto(r, "delete_question", loc[r])
    /\ UNCHANGED <<settings, questions, nextQid, scheduledTimeOf, nextSid,
                   participants, nextPid, clock, serial>>

\* A deleteQuestion whose foreign key cascades.
DeleteQuestionCascade(r) ==
    /\ pc[r] = "delete_question"
    /\ questions' = {q \in questions : q.id # loc[r].qid}
    /\ submissions' = {s \in submissions : s.questionId # loc[r].qid}
    /\ Respond(r, [NoOut EXCEPT !.op = "delete", !.code = 204,
                                !.qid = loc[r].qid])
    /\ UNCHANGED <<settings, nextQid, scheduledTimeOf, nextSid,
                   participants, nextPid, clock, serial>>

\* deleteQuestion(id): the foreign key of submissions.questionId (no cascade)
\* makes the delete throw while a submission references the question.
DeleteQuestion(r) ==
    /\ pc[r] = "delete_question"
    /\ IF \E s \in submissions : s.questionId = loc[r].qid
         THEN /\ questions' = questions
              /\ Respond(r, [NoOut EXCEPT !.op = "delete", !.code = 500,
                                          !.qid = loc[r].qid])
         ELSE /\ questions' = {q \in questions : q.id # loc[r].qid}
              /\ Respond(r, [NoOut EXCEPT !.op = "delete", !.code = 204,
                                          !.qid = loc[r].qid])
    /\ UNCHANGED <<settings, nextQid, scheduledTimeOf, submissions, nextSid,
                   participants, nextPid, clock, serial>>

\* ------------------------------------------------------------------ daily question
\* A daily query without the epoch condition.
DailyCandidatesAnyEpoch(date, resetId) ==
    {q \in questions : q.quizDate = date /\ q.isActive}

\* getDailyQuestion(date), the query: where quizDate = date and isActive and
\* resetId = current, order by "order" desc, limit 1.
DailyCandidates(date, resetId) ==
    {q \in questions : q.quizDate = date /\ q.isActive /\ q.resetId = resetId}

getDailyQuestion(date, resetId) ==
    {q \in DailyCandidates(date, resetId) :
       \A o \in DailyCandidates(date, resetId) : o.order <= q.order}

\* The two ids compared with each other's column.
getSubmissionSwapped(participantId, questionId) ==
    {s \in submissions : s.participantId = questionId
                         /\ s.questionId = participantId}

getSubmission(participantId, questionId) ==
    {s \in submissions : s.participantId = participantId
                         /\ s.questionId = questionId}

DailyNull(r) == [NoOut EXCEPT !.op = "daily", !.code = 200, !.pid = loc[r].pid]

\* GET /api/question/daily with the token of participant pid; the argument
\* getTodayDate() is evaluated before getDailyQuestion's first await.
StartDaily(r, pid) ==
    /\ Begin(r, "epoch_select",
             [NoLoc EXCEPT !.op = "daily", !.pid = pid, !.date = getTodayDate])
    /\ UNCHANGED <<store, clock, serial>>

\* const question = await storage.getDailyQuestion(...): the handler keeps
\* the whole row, correctAnswerIndex included.
DailySelect(r) ==
    /\ pc[r] = "daily_select"
    /\ IF getDailyQuestion(loc[r].date, loc[r].resetId) = {}
         THEN Respond(r, DailyNull(r))
         ELSE \E q \in getDailyQuestion(loc[r].date, loc[r].resetId) :
                Goto(r, "daily_getSubmission",
                     [loc[r] EXCEPT !.qid = q.id, !.date = q.quizDate,
                                    !.order = q.order,
                                    !.correct = q.correctAnswerIndex])
    /\ UNCHANGED <<store, clock, serial>>

\* res.json(question): the whole row sent.
DailyQuestionBodyWhole(r) ==
    [id |-> loc[r].qid, quizDate |-> loc[r].date, order |-> loc[r].order,
     correctAnswerIndex |-> loc[r].correct]

\* res.json({ id, content, options, quizDate, order }); the model holds no
\* content and no options.
DailyQuestionBody(r) ==
    [id |-> loc[r].qid, quizDate |-> loc[r].date, order |-> loc[r].order]

\* The handler without the already-submitted check.
DailyGetSubmissionUnchecked(r) ==
    /\ pc[r] = "daily_getSubmission"
    /\ Respond(r, [DailyNull(r) EXCEPT !.qid = loc[r].qid,
                                      !.body = DailyQuestionBody(r)])
    /\ UNCHANGED <<store, clock, serial>>

\* The already-submitted check, then the public projection of the question.
DailyGetSubmission(r) ==
    /\ pc[r] = "daily_getSubmission"
    /\ IF getSubmission(loc[r].pid, loc[r].qid) # {}
         THEN Respond(r, DailyNull(r))
         ELSE Respond(r, [DailyNull(r) EXCEPT !.qid = loc[r].qid,
                                              !.body = DailyQuestionBody(r)])
    /\ UNCHANGED <<store, clock, serial>>

\* ------------------------------------------------------------------ scoring
Max(a, b) == IF a >= b THEN a ELSE b

\* The base marks without the floor.
baseMarksUnfloored(answerOrder) == 510 - answerOrder * 10

baseMarks(answerOrder) == Max(0, 510 - answerOrder * 10)

\* The status with `!input.answerIndex` as the unattempted test.
statusFalsy(answerIndex, correctAnswerIndex) ==
    IF answerIndex = Null \/ answerIndex = 0 THEN "UNATTEMPTED"
    ELSE IF answerIndex = correctAnswerIndex THEN "CORRECT"
    ELSE "WRONG"

status(answerIndex, correctAnswerIndex) ==
    IF answerIndex = Null THEN "UNATTEMPTED"
    ELSE IF answerIndex = correctAnswerIndex THEN "CORRECT"
    ELSE "WRONG"

wrongAttemptOrder == 1

\* The deduction of a second wrong attempt, on every wrong answer.
deductionMarksFlat(st) == IF st = "WRONG" THEN -5 ELSE 0

deductionMarks(st) == IF st = "WRONG" THEN -5 * (wrongAttemptOrder - 1) ELSE 0

\* IEEE-754 doubles, as JavaScript computes them: 0.7 - n * 0.1 falls short of
\* (7 - n) / 10 by these many 1e-17, for n = 1..6.
JsBonusDeficit == <<0, 6, 10, 7, 4, 13>>
\* baseMarks * (1 + bonusPercentage) falls short of the exact product by
\* these many 1e-14, for answerOrder = 1..6.
JsProductDeficit == <<0, 0, 0, 10, 0, 6>>

\* Math.max(0, 0.7 - answerOrder * 0.1), as tenths less a deficit of 1e-17s.
bonusPercentage(answerOrder) ==
    IF answerOrder >= 7 THEN [tenths |-> 0, deficit |-> 0]
    ELSE [tenths |-> 7 - answerOrder, deficit |-> JsBonusDeficit[answerOrder]]

isEligibleForExtra(prevScore) == prevScore <= 0

extraApplied(st, prevScore) == st = "CORRECT" /\ isEligibleForExtra(prevScore)

\* finalScore, floored at -50: whole marks less a deficit of 1e-14s.
finalScore(st, answerOrder, prevScore) ==
    LET raw == IF st = "CORRECT"
                 THEN IF isEligibleForExtra(prevScore) /\ answerOrder < 7
                        THEN [marks |-> (baseMarks(answerOrder)
                                         * (10 + bonusPercentage(answerOrder).tenths))
                                        \div 10,
                              deficit |-> JsProductDeficit[answerOrder]]
                        ELSE [marks |-> baseMarks(answerOrder), deficit |-> 0]
               ELSE [marks |-> deductionMarks(st), deficit |-> 0]
    IN [raw EXCEPT !.marks = Max(-50, raw.marks)]

\* ------------------------------------------------------------------ submit
getGlobalAnswerOrder(questionId) ==
    Cardinality({s \in submissions : s.questionId = questionId}) + 1

\* A lookup ordered by ascending timestamp: the participant's first submission.
getPreviousQuestionScoreOldest(participantId) ==
    LET mine == {s \in submissions : s.participantId = participantId} IN
    IF mine = {} THEN 100
    ELSE (CHOOSE s \in mine : \A o \in mine : s.id <= o.id).finalScore.marks

\* The finalScore of the participant's latest submission (greatest timestamp),
\* or 100 when there is none.
getPreviousQuestionScore(participantId) ==
    LET mine == {s \in submissions : s.participantId = participantId} IN
    IF mine = {} THEN 100
    ELSE (CHOOSE s \in mine : \A o \in mine : o.id <= s.id).finalScore.marks

\* The JSON a submit answers with; an insert that throws is answered by the
\* framework.
SubmitBody(code) ==
    CASE code = 200 -> [message |-> "Submitted",
                        status |-> "Your answer has been recorded successfully."]
      [] code = 400 -> [message |-> "Already submitted"]
      [] code = 404 -> [message |-> "Question not found"]
      [] OTHER -> NoBody

SubmitOut(r, code) ==
    [NoOut EXCEPT !.op = "submit", !.code = code, !.pid = loc[r].pid,
                  !.qid = loc[r].qid, !.body = SubmitBody(code)]

\* The submissions of participants other than 1..MaxParticipants: rows a store
\* starts with.
CrowdRows ==
    Cardinality({s \in submissions : s.participantId > MaxParticipants})

\* POST /api/submit { questionId, answerIndex, reason } with the token of pid;
\* at most MaxSubmissions rows are added to those the store starts with.
StartSubmit(r, pid, qid, answerIndex, reason) ==
    /\ nextSid + InFlight("submit") <= MaxSubmissions + CrowdRows
    /\ Begin(r, "submit_getSubmission",
             [NoLoc EXCEPT !.op = "submit", !.pid = pid, !.qid = qid,
                           !.answerIndex = answerIndex, !.reason = reason])
    /\ UNCHANGED <<store, clock, serial>>

\* const existing = await storage.getSubmission(...); if (existing) return 400.
SubmitGetSubmission(r) ==
    /\ pc[r] = "submit_getSubmission"
    /\ IF getSubmission(loc[r].pid, loc[r].qid) # {}
         THEN Respond(r, SubmitOut(r, 400))
         ELSE Goto(r, "submit_getQuestion", loc[r])
    /\ UNCHANGED <<store, clock, serial>>

\* const question = await storage.getQuestion(...); if (!question) return 404.
SubmitGetQuestion(r) ==
    /\ pc[r] = "submit_getQuestion"
    /\ IF getQuestion(loc[r].qid) = {}
         THEN Respond(r, SubmitOut(r, 404))
         ELSE \E q \in getQuestion(loc[r].qid) :
                Goto(r, "submit_answerOrder",
                     [loc[r] EXCEPT !.correct = q.correctAnswerIndex])
    /\ UNCHANGED <<store, clock, serial>>

SubmitAnswerOrder(r) ==
    /\ pc[r] = "submit_answerOrder"
    /\ Goto(r, "submit_prevScore",
            [loc[r] EXCEPT !.answerOrder = getGlobalAnswerOrder(loc[r].qid)])
    /\ UNCHANGED <<store, clock, serial>>

\* getPreviousQuestionScore; the score is then computed and createSubmission
\* starts with getCurrentResetId.
SubmitPrevScore(r) ==
    /\ pc[r] = "submit_prevScore"
    /\ Goto(r, "epoch_select",
            [loc[r] EXCEPT !.prevScore = getPreviousQuestionScore(loc[r].pid)])
    /\ UNCHANGED <<store, clock, serial>>

NewSubmission(r) ==
    LET st == status(loc[r].answerIndex, loc[r].correct) IN
    [id |-> nextSid,
     participantId |-> loc[r].pid,
     questionId |-> loc[r].qid,
     answerIndex |-> loc[r].answerIndex,
     status |-> st,
     answerOrder |-> loc[r].answerOrder,
     wrongAttemptOrder |-> wrongAttemptOrder,
     baseMarks |-> baseMarks(loc[r].answerOrder),
     deductionMarks |-> deductionMarks(st),
     bonusPercentage |-> bonusPercentage(loc[r].answerOrder),
     extraApplied |-> extraApplied(st, loc[r].prevScore),
     finalScore |-> finalScore(st, loc[r].answerOrder, loc[r].prevScore),
     isAutoSubmitted |-> loc[r].reason \notin {NoReason, ""},
     autoSubmitReason |-> loc[r].reason,
     resetId |-> loc[r].resetId]

\* The foreign keys of submissions: the participant and the question exist.
ForeignKeysHold(s) ==
    /\ \E p \in participants : p.id = s.participantId
    /\ \E q \in questions : q.id = s.questionId

\* createSubmission: insert { ...submission, resetId }. The row takes the next
\* value of the serial as its id when it is built; the insert throws when a
\* foreign key fails, and the request ends without a row, the value spent.
SubmitInsert(r) ==
    /\ pc[r] = "submit_insert"
    /\ nextSid' = nextSid + 1
    /\ IF ForeignKeysHold(NewSubmission(r))
         THEN /\ submissions' = submissions \cup {NewSubmission(r)}
              /\ Respond(r, SubmitOut(r, 200))
         ELSE /\ UNCHANGED submissions
              /\ Respond(r, SubmitOut(r, 500))
    /\ UNCHANGED <<settings, questions, nextQid, scheduledTimeOf, participants,
                   nextPid, clock, serial>>

\* ------------------------------------------------------------------ leaderboard
\* The column of a submission row that an aggregate reads.
Column(s, col) ==
    CASE col = "finalScore.marks" -> s.finalScore.marks
      [] col = "finalScore.deficit" -> s.finalScore.deficit
      [] col = "correct" -> (IF s.status = "CORRECT" THEN 1 ELSE 0)
      [] col = "answerOrder" -> s.answerOrder

RECURSIVE SumOf(_, _)
SumOf(S, col) ==
    IF S = {} THEN 0
    ELSE LET x == CHOOSE y \in S : TRUE IN Column(x, col) + SumOf(S \ {x}, col)

\* The digits after the point of a stored finalScore, which is the text of
\* finalScore.toString(): 610.9999999999999 has 13, 494.99999999999994 has 14.
DecimalPlaces(score) ==
    CASE score.deficit = 0 -> 0
      [] score.deficit = 10 -> 13
      [] OTHER -> 14

\* The text of sum(finalScore) for the rows S of one group: the exact decimal
\* sum, written with the most digits after the point of any row summed.
TotalText(S) ==
    [marks |-> SumOf(S, "finalScore.marks"),
     deficit |-> SumOf(S, "finalScore.deficit"),
     places |-> LET ps == {DecimalPlaces(s.finalScore) : s \in S} IN
                CHOOSE m \in ps : \A x \in ps : x <= m]

\* Doubles per 1e-14 just below a whole number of marks, in millionths:
\* 1e-14 / 2^(e-52), for the binade (2^e, 2^(e+1)] the marks lie in.
JsUlpRate(marks) ==
    CASE marks > 4096 -> 10995
      [] marks > 2048 -> 21990
      [] marks > 1024 -> 43980
      [] marks > 512 -> 87961
      [] OTHER -> 175922

\* The double a decimal text converts to (Number(text), or the conversion of
\* a subtraction): the nearest one, as whole marks less a count of ulps.
JsNumber(text) ==
    [marks |-> text.marks,
     ulps |-> (text.deficit * JsUlpRate(text.marks) + 500000) \div 1000000]

\* A leaderboard query without the epoch condition.
LeaderboardScopeAllEpochs(subs, type, date, resetId) ==
    {s \in subs :
       /\ \E p \in participants : p.id = s.participantId
       /\ \E q \in questions :
            /\ q.id = s.questionId
            /\ (type = "daily") => q.quizDate = date}

\* A leaderboard query with the date condition for either type.
LeaderboardScopeAlwaysDated(subs, type, date, resetId) ==
    {s \in subs :
       /\ s.resetId = resetId
       /\ \E p \in participants : p.id = s.participantId
       /\ \E q \in questions : q.id = s.questionId /\ q.quizDate = date}

\* The rows the leaderboard query reads of the submissions table subs: those
\* of the epoch, joined to their participant and question, of the date when
\* type is "daily".
LeaderboardScope(subs, type, date, resetId) ==
    {s \in subs :
       /\ s.resetId = resetId
       /\ \E p \in participants : p.id = s.participantId
       /\ \E q \in questions :
            /\ q.id = s.questionId
            /\ (type = "daily") => q.quizDate = date}

\* group by participant: sum(finalScore), count of CORRECT, avg(answerOrder)
\* (kept as the sum and the count of the answer orders).
LeaderboardRows(subs, type, date, resetId) ==
    LET scope == LeaderboardScope(subs, type, date, resetId) IN
    {[participantId |-> pid,
      totalScore |-> TotalText({s \in scope : s.participantId = pid}),
      correctCount |-> SumOf({s \in scope : s.participantId = pid}, "correct"),
      sumAnswerOrder |-> SumOf({s \in scope : s.participantId = pid},
                               "answerOrder"),
      count |-> Cardinality({s \in scope : s.participantId = pid})] :
     pid \in {s.participantId : s \in scope}}

\* One double is greater than another.
Higher(x, y) ==
    x.marks > y.marks \/ (x.marks = y.marks /\ x.ulps < y.ulps)

\* The comparator of rows.sort is negative for (a, b): when the texts of the
\* totals differ, their difference as doubles decides alone; else the greater
\* correct count, and else the lesser average answer order.
Before(a, b) ==
    IF a.totalScore # b.totalScore
      THEN Higher(JsNumber(a.totalScore), JsNumber(b.totalScore))
      ELSE IF a.correctCount # b.correctCount
             THEN a.correctCount > b.correctCount
             ELSE a.sumAnswerOrder * b.count < b.sumAnswerOrder * a.count

\* The orders a query without ORDER BY may return the rows in.
RECURSIVE QueryOrders(_)
QueryOrders(rows) ==
    IF rows = {} THEN {<< >>}
    ELSE UNION {{<<x>> \o rest : rest \in QueryOrders(rows \ {x})} : x \in rows}

\* Array.prototype.sort of fewer than 64 elements (V8): the run the array
\* starts with, then a binary insertion of each element after it.
\* The length of that run: from a[idx] on, elements are taken while each is
\* before its predecessor (a descending run) or is not (an ascending one).
RECURSIVE RunLength(_, _, _)
RunLength(a, idx, descending) ==
    IF idx > Len(a) THEN Len(a)
    ELSE IF Before(a[idx], a[idx - 1]) = descending
           THEN RunLength(a, idx + 1, descending)
           ELSE idx - 1

\* The binary search for the place of pivot in a[left .. right - 1].
RECURSIVE InsertionPoint(_, _, _, _)
InsertionPoint(a, pivot, left, right) ==
    IF left >= right THEN left
    ELSE LET mid == left + (right - left) \div 2 IN
         IF Before(pivot, a[mid])
           THEN InsertionPoint(a, pivot, left, mid)
           ELSE InsertionPoint(a, pivot, mid + 1, right)

\* a[start] and the elements after it, each inserted among those before it.
RECURSIVE BinaryInsertionSort(_, _)
BinaryInsertionSort(a, start) ==
    IF start > Len(a) THEN a
    ELSE LET left == InsertionPoint(a, a[start], 1, start) IN
         BinaryInsertionSort(
           [i \in 1..Len(a) |-> IF i < left \/ i > start THEN a[i]
                                ELSE IF i = left THEN a[start]
                                ELSE a[i - 1]],
           start + 1)

\* rows.sort(comparator), on the rows in the order the query returned them:
\* a descending first run is reversed in place, the rest is inserted.
ArraySort(a) ==
    IF Len(a) < 2 THEN a
    ELSE LET descending == Before(a[2], a[1])
             run == RunLength(a, 3, descending)
             reversed == [i \in 1..Len(a) |->
                            IF i <= run THEN a[run + 1 - i] ELSE a[i]]
         IN BinaryInsertionSort(IF descending THEN reversed ELSE a, run + 1)

\* The sorted rows, for each order the query may return the groups in.
SortedRows(rows) == {ArraySort(a) : a \in QueryOrders(rows)}

\* rows.map((r, index) => ({ rank: index + 1, participantName, ... })).
Entry(index, row) ==
    [rank |-> index,
     participantName |->
       (CHOOSE p \in participants : p.id = row.participantId).name,
     totalScore |-> JsNumber(row.totalScore),
     correctCount |-> row.correctCount,
     sumAnswerOrder |-> row.sumAnswerOrder,
     count |-> row.count]

Ranked(rows) ==
    {[i \in 1..Len(sorted) |-> Entry(i, sorted[i])] : sorted \in SortedRows(rows)}

\* GET /api/admin/results?type=&date= ; a request without a date (Null) is
\* given today's.
StartLeaderboard(r, type, date) ==
    /\ Begin(r, "epoch_select",
             [NoLoc EXCEPT !.op = "board", !.type = type,
                           !.date = IF date = Null THEN getTodayDate ELSE date,
                           !.dateGiven = date # Null])
    /\ UNCHANGED <<store, clock, serial>>

LeaderboardQuery(r) ==
    /\ pc[r] = "board_query"
    /\ LET rows == LeaderboardRows(submissions, loc[r].type, loc[r].date,
                                   loc[r].resetId) IN
       \E board \in Ranked(rows) :
         Respond(r, [NoOut EXCEPT !.op = "board", !.code = 200,
                                  !.val = loc[r].resetId,
                                  !.rows = rows, !.ranked = board])
    /\ UNCHANGED <<store, clock, serial>>

\* ------------------------------------------------------------------ stats, export
\* GET /api/admin/stats: today's date is read before getCurrentResetId.
StartStats(r) ==
    /\ Begin(r, "epoch_select",
             [NoLoc EXCEPT !.op = "stats", !.date = getTodayDate])
    /\ UNCHANGED <<store, clock, serial>>

\* select count(*) from participants
StatsParticipants(r) ==
    /\ pc[r] = "stats_participants"
    /\ Goto(r, "stats_submissions",
            [loc[r] EXCEPT !.participantCount = Cardinality(participants)])
    /\ UNCHANGED <<store, clock, serial>>

\* The submissions of the epoch whose question is dated today (inner join).
SubmissionsToday(date, resetId) ==
    {s \in submissions :
       /\ s.resetId = resetId
       /\ \E q \in questions : q.id = s.questionId /\ q.quizDate = date}

\* select count(*) from submissions inner join questions where ...
StatsSubmissions(r) ==
    /\ pc[r] = "stats_submissions"
    /\ Goto(r, "stats_questions",
            [loc[r] EXCEPT !.submissionsToday =
               Cardinality(SubmissionsToday(loc[r].date, loc[r].resetId))])
    /\ UNCHANGED <<store, clock, serial>>

\* select count(*) from questions where quizDate = today and isActive and
\* resetId = current; then res.json of the three counts.
StatsQuestions(r) ==
    /\ pc[r] = "stats_questions"
    /\ Respond(r, [NoOut EXCEPT
                     !.op = "stats", !.code = 200,
                     !.body = [totalParticipants |-> loc[r].participantCount,
                               totalSubmissionsToday |-> loc[r].submissionsToday,
                               activeQuestions |->
                                 Cardinality(DailyCandidates(loc[r].date,
                                                             loc[r].resetId))]])
    /\ UNCHANGED <<store, clock, serial>>

\* GET /api/admin/export?date= ; a request without a date (Null) is given
\* today's.
StartExport(r, date) ==
    /\ Begin(r, "epoch_select",
             [NoLoc EXCEPT !.op = "export",
                           !.date = IF date = Null THEN getTodayDate ELSE date,
                           !.dateGiven = date # Null])
    /\ UNCHANGED <<store, clock, serial>>

\* getAllSubmissions, the select; the rows go into the workbook that is sent
\* as an attachment, of which the model holds nothing.
ExportQuery(r) ==
    /\ pc[r] = "export_query"
    /\ Respond(r, [NoOut EXCEPT !.op = "export", !.code = 200])
    /\ UNCHANGED <<store, clock, serial>>

\* ------------------------------------------------------------------ clock
\* new Date(): the wall clock, which advances between any two steps, whether
\* or not a request is being handled.
Tick ==
    /\ clock < MaxClock
    /\ clock' = clock + 1
    /\ out' = NoOut
    /\ UNCHANGED <<store, pc, loc, serial>>

\* ------------------------------------------------------------------ system
InitStore ==
    /\ settings = << >>
    /\ questions = {}
    /\ nextQid = 1
    /\ scheduledTimeOf = [q \in QuestionIds |-> Null]
    /\ submissions = {}
    /\ nextSid = 1
    /\ participants = {}
    /\ nextPid = 1
    /\ clock = 0
    /\ pc = [r \in Req |-> "idle"]
    /\ loc = [r \in Req |-> NoLoc]
    /\ out = NoOut

Init == InitStore /\ serial = FALSE
InitSeq == InitStore /\ serial = TRUE

Step(r) ==
    \/ GetCurrentResetIdSelect(r)
    \/ GetCurrentResetIdInsert(r)
    \/ ResetSelect(r)
    \/ ResetWrite(r)
    \/ IdentifyByName(r)
    \/ IdentifyByDevice(r)
    \/ IdentifyCreate(r)
    \/ CreateQuestionInsert(r)
    \/ DeleteSubmissionsByQuestion(r)
    \/ DeleteQuestion(r)
    \/ DailySelect(r)
    \/ DailyGetSubmission(r)
    \/ SubmitGetSubmission(r)
    \/ SubmitGetQuestion(r)
    \/ SubmitAnswerOrder(r)
    \/ SubmitPrevScore(r)
    \/ SubmitInsert(r)
    \/ LeaderboardQuery(r)
    \/ StatsParticipants(r)
    \/ StatsSubmissions(r)
    \/ StatsQuestions(r)
    \/ ExportQuery(r)

\* The requests of a workload: each kind of request, its inputs drawn from
\* the given sets.
Start(r, names, devices, quizDates, orders, actives, times, updates, pids, qids, answerIndexes, reasons, types) ==
    \/ StartReset(r)
    \/ \E name \in names, deviceId \in devices : StartIdentify(r, name, deviceId)
    \/ \E quizDate \in quizDates, order \in orders, isActive \in actives,
          scheduledTime \in times :
         StartCreateQuestion(r, quizDate, order, isActive, scheduledTime)
    \/ \E id \in qids, sent \in updates : UpdateQuestion(r, id, sent)
    \/ \E id \in qids : StartDeleteQuestion(r, id)
    \/ \E pid \in pids : StartDaily(r, pid)
    \/ \E pid \in pids, qid \in qids,
          answerIndex \in answerIndexes, reason \in reasons :
         StartSubmit(r, pid, qid, answerIndex, reason)
    \/ \E type \in types, date \in quizDates :
         StartLeaderboard(r, type, date)
    \/ StartStats(r)
    \/ \E date \in quizDates \cup {Null} : StartExport(r, date)

\* The bodies of a PATCH: none of the columns, a column the model does not
\* hold, one of those it holds, or two of them.
QuestionUpdates ==
    {NoUpdates, [content |-> 0], [quizDate |-> 1, order |-> 2]}
    \cup {[isActive |-> isActive] : isActive \in BOOLEAN}
    \cup {[quizDate |-> quizDate] : quizDate \in Dates}
    \cup {[order |-> order] : order \in Orders}
    \cup {[correctAnswerIndex |-> index] : index \in {0, 1}}

\* Every handler, from the empty store, each with a few inputs.
Next ==
    \/ Tick
    \/ \E r \in Req :
         \/ Start(r, {1}, Devices, Dates, {1}, {TRUE}, {Null}, QuestionUpdates,
                  {1}, {1}, {Null, 1}, {NoReason}, {"daily"})
         \/ Step(r)

Spec == Init /\ [][Next]_vars
SpecSeq == InitSeq /\ [][Next]_vars

\* ------------------------------------------------------------------ ledger workload
\* A store the server reaches by two identify requests and one create-question
\* request: two participants, one active question of today, epoch 0.
SeedParticipants ==
    {[id |-> i, name |-> i, deviceId |-> i, isBanned |-> FALSE] : i \in {1, 2}}

SeedQuestions ==
    {[id |-> 1, quizDate |-> 0, order |-> 1, isActive |-> TRUE,
      correctAnswerIndex |-> 1, resetId |-> 0]}

InitLedgerStore ==
    /\ settings = <<0>>
    /\ questions = SeedQuestions
    /\ nextQid = 2
    /\ scheduledTimeOf = [q \in QuestionIds |-> Null]
    /\ submissions = {}
    /\ nextSid = 1
    /\ participants = SeedParticipants
    /\ nextPid = 3
    /\ clock = 0
    /\ pc = [r \in Req |-> "idle"]
    /\ loc = [r \in Req |-> NoLoc]
    /\ out = NoOut

\* Concurrent submit requests of two participants for the seeded question.
NextLedger ==
    \E r \in Req :
      \/ \E pid \in {1, 2}, answerIndex \in AnswerIndexes :
           StartSubmit(r, pid, 1, answerIndex, NoReason)
      \/ GetCurrentResetIdSelect(r)
      \/ SubmitGetSubmission(r)
      \/ SubmitGetQuestion(r)
      \/ SubmitAnswerOrder(r)
      \/ SubmitPrevScore(r)
      \/ SubmitInsert(r)

InitLedger == InitLedgerStore /\ serial = FALSE

SpecLedger == InitLedger /\ [][NextLedger]_vars

\* Submit requests one at a time, for a question that exists or not, with any
\* answer and reason, between question deletes.
NextLedgerSeq ==
    \E r \in Req :
      \/ \E pid \in {1, 2}, qid \in {1, 2}, answerIndex \in AnswerIndexes,
            reason \in Reasons :
           StartSubmit(r, pid, qid, answerIndex, reason)
      \/ \E id \in {1, 2} : StartDeleteQuestion(r, id)
      \/ GetCurrentResetIdSelect(r)
      \/ DeleteSubmissionsByQuestion(r)
      \/ DeleteQuestion(r)
      \/ SubmitGetSubmission(r)
      \/ SubmitGetQuestion(r)
      \/ SubmitAnswerOrder(r)
      \/ SubmitPrevScore(r)
      \/ SubmitInsert(r)

InitLedgerSeq == InitLedgerStore /\ serial = TRUE

SpecLedgerSeq == InitLedgerSeq /\ [][NextLedgerSeq]_vars

\* ------------------------------------------------------------------ claims: ledger
\* C1: the ledger never holds more than one Submission for a
\* (participantId, questionId) pair, under every interleaving of submits.
C1_AtMostOneSubmissionPerPair ==
    \A s, t \in submissions :
      (s.participantId = t.participantId /\ s.questionId = t.questionId)
        => s.id = t.id

\* C2: for every question the answerOrder values of its Submissions are
\* exactly 1..N, N the number of its Submissions.
C2_AnswerOrdersAreOneToN ==
    \A qid \in QuestionIds :
      LET of == {s \in submissions : s.questionId = qid} IN
      /\ {s.answerOrder : s \in of} = 1..Cardinality(of)
      /\ \A s, t \in of : s.answerOrder = t.answerOrder => s.id = t.id

\* The Submissions of a (participant, question) pair, read off the table.
PairRows(pid, qid) ==
    {s \in submissions : s.participantId = pid /\ s.questionId = qid}

\* C3: while a submit is being handled for a (participant, question) pair
\* that already has a Submission, no step changes the submissions, and the
\* request ends at once with 400 "Already submitted".
C3_ResubmitRejectedStoreUnchanged ==
    [][\A r \in Req :
         (loc[r].op = "submit" /\ PairRows(loc[r].pid, loc[r].qid) # {})
           => /\ submissions' = submissions
              /\ pc'[r] = "idle"
              /\ out' = SubmitOut(r, 400)]_vars

\* C3, its case: a resubmission has just been rejected and the pair's
\* Submission is there.
C3_Witness ==
    /\ out.op = "submit" /\ out.code = 400
    /\ Cardinality(PairRows(out.pid, out.qid)) = 1

\* C4: while a submit is being handled for a questionId that matches no
\* Question, no step changes the submissions, and the request ends with 404
\* "Question not found".
C4_UnknownQuestionRejected ==
    [][\A r \in Req :
         (loc[r].op = "submit" /\ \A q \in questions : q.id # loc[r].qid)
           => /\ submissions' = submissions
              /\ (pc'[r] = "idle" => out' = SubmitOut(r, 404))]_vars

\* C4, its case: a submit has just been rejected with 404 for a question that
\* is not there, while Submissions of another question stand.
C4_Witness ==
    /\ out.op = "submit" /\ out.code = 404
    /\ \A q \in questions : q.id # out.qid
    /\ submissions # {}

\* ------------------------------------------------------------------ admin workload
\* A store the server reaches by two identify requests, its requests handled
\* one at a time.
InitAdmin ==
    /\ serial = TRUE
    /\ settings = << >>
    /\ questions = {}
    /\ nextQid = 1
    /\ scheduledTimeOf = [q \in QuestionIds |-> Null]
    /\ submissions = {}
    /\ nextSid = 1
    /\ participants = SeedParticipants
    /\ nextPid = 3
    /\ clock = 0
    /\ pc = [r \in Req |-> "idle"]
    /\ loc = [r \in Req |-> NoLoc]
    /\ out = NoOut

\* Every handler that reads the epoch, and the question updates and deletes,
\* one request at a time within one day: the admin resets, creates, changes
\* and deletes question 1 and reads the leaderboard, the stats and the export;
\* participant 1 asks for the daily question and answers question 1.
NextAdmin ==
    \E r \in Req :
      \/ StartReset(r)
      \/ StartCreateQuestion(r, 0, 1, TRUE, Null)
      \/ \E sent \in {[isActive |-> FALSE], [quizDate |-> 1, order |-> 2]} :
           UpdateQuestion(r, 1, sent)
      \/ StartDeleteQuestion(r, 1)
      \/ StartDaily(r, 1)
      \/ \E answerIndex \in {Null, 1} : StartSubmit(r, 1, 1, answerIndex, NoReason)
      \/ \E date \in Dates : StartLeaderboard(r, "daily", date)
      \/ StartStats(r)
      \/ StartExport(r, Null)
      \/ GetCurrentResetIdSelect(r)
      \/ GetCurrentResetIdInsert(r)
      \/ ResetSelect(r)
      \/ ResetWrite(r)
      \/ CreateQuestionInsert(r)
      \/ DeleteSubmissionsByQuestion(r)
      \/ DeleteQuestion(r)
      \/ DailySelect(r)
      \/ DailyGetSubmission(r)
      \/ SubmitGetSubmission(r)
      \/ SubmitGetQuestion(r)
      \/ SubmitAnswerOrder(r)
      \/ SubmitPrevScore(r)
      \/ SubmitInsert(r)
      \/ LeaderboardQuery(r)
      \/ StatsParticipants(r)
      \/ StatsSubmissions(r)
      \/ StatsQuestions(r)
      \/ ExportQuery(r)

SpecAdmin == InitAdmin /\ [][NextAdmin]_vars

\* ------------------------------------------------------------------ claims: epoch
\* What getCurrentResetId returns when it runs in this state: the
\* currentResetId of a settings row, or 0 of the row it would insert.
ReadableEpochs ==
    IF settings = << >> THEN {0} ELSE {settings[i] : i \in SettingRows}

\* C5: performReset returns the previous current epoch plus 1 and makes it the
\* current epoch; the current epoch never decreases, and no step other than
\* the write of performReset changes it (the read that inserts the settings
\* record leaves it at its value).
C5_EpochAdvancesOnlyByReset ==
    [][/\ out'.op = "reset" =>
            /\ ReadableEpochs = {out'.val - 1}
            /\ ReadableEpochs' = {out'.val}
       /\ \A e \in ReadableEpochs, f \in ReadableEpochs' : f >= e
       /\ ReadableEpochs' # ReadableEpochs => out'.op = "reset"]_vars

\* C5, its case: a reset has just returned 1, over the settings record that
\* a read created with 0.
C5_Witness ==
    /\ out.op = "reset" /\ out.val = 1
    /\ settings = <<1>>

\* C6: no step of performReset changes the questions or the submissions, and
\* no step of any handler changes the resetId of an existing Question or
\* Submission.
C6_ResetKeepsRowsAndTags ==
    [][/\ \A r \in Req : loc[r].op = "reset" =>
            questions' = questions /\ submissions' = submissions
       /\ \A q \in questions, n \in questions' :
            q.id = n.id => q.resetId = n.resetId
       /\ \A s \in submissions, n \in submissions' :
            s.id = n.id => s.resetId = n.resetId]_vars

\* C6, its case: a reset has just ended, over Questions and Submissions of
\* the epoch before.
C6_Witness ==
    /\ out.op = "reset"
    /\ \E q \in questions : q.resetId < out.val
    /\ \E s \in submissions : s.resetId < out.val

\* C7: the write of performReset keeps every Submission with its epoch tag,
\* all of an earlier epoch than the new one, and the leaderboard of the new
\* epoch is empty right after it; a leaderboard response holds the rows of
\* the current epoch's Submissions alone.
C7_OldEpochOffLeaderboard ==
    [][/\ out'.op = "reset" =>
            /\ submissions' = submissions
            /\ \A s \in submissions' : s.resetId < out'.val
            /\ \A type \in {"daily", "monthly"}, date \in Dates :
                 LeaderboardRows(submissions', type, date, out'.val) = {}
       /\ \A r \in Req :
            (pc[r] = "board_query" /\ pc'[r] = "idle") =>
              /\ out'.op = "board"
              /\ out'.rows =
                   LeaderboardRows({s \in submissions :
                                      s.resetId \in ReadableEpochs},
                                   loc[r].type, loc[r].date, out'.val)]_vars

\* C7, its case: a leaderboard read after a reset answers no rows while the
\* Submissions of the epoch before are in the store with their question.
C7_Witness ==
    /\ out.op = "board" /\ out.rows = {}
    /\ ReadableEpochs = {out.val}
    /\ \E s \in submissions, q \in questions :
         q.id = s.questionId /\ s.resetId < out.val

\* ------------------------------------------------------------------ visibility workload
\* A store the server reaches by two identify requests.
InitVisStore ==
    /\ settings = << >>
    /\ questions = {}
    /\ nextQid = 1
    /\ scheduledTimeOf = [q \in QuestionIds |-> Null]
    /\ submissions = {}
    /\ nextSid = 1
    /\ participants = SeedParticipants
    /\ nextPid = 3
    /\ clock = 0
    /\ pc = [r \in Req |-> "idle"]
    /\ loc = [r \in Req |-> NoLoc]
    /\ out = NoOut

\* Daily-question requests one at a time, between question creates of every
\* date, order and scheduled time (the admin form sends isActive: true),
\* activations and deactivations, deletes, resets and clock ticks.
NextVis ==
    \/ Tick
    \/ \E r \in Req :
         \/ StartDaily(r, 1)
         \/ \E quizDate \in Dates, order \in Orders,
               scheduledTime \in {Null} \cup Times :
              StartCreateQuestion(r, quizDate, order, TRUE, scheduledTime)
         \/ \E id \in QuestionIds, isActive \in BOOLEAN :
              UpdateQuestion(r, id, [isActive |-> isActive])
         \/ \E id \in QuestionIds : StartDeleteQuestion(r, id)
         \/ StartReset(r)
         \/ GetCurrentResetIdSelect(r)
         \/ GetCurrentResetIdInsert(r)
         \/ ResetSelect(r)
         \/ ResetWrite(r)
         \/ CreateQuestionInsert(r)
         \/ DeleteSubmissionsByQuestion(r)
         \/ DeleteQuestion(r)
         \/ DailySelect(r)
         \/ DailyGetSubmission(r)

InitVis == InitVisStore /\ serial = TRUE

SpecVis == InitVis /\ [][NextVis]_vars

\* Daily-question requests one at a time, while the days pass and the admin
\* creates questions of today and tomorrow, switches them off and on, moves
\* them to the other day, and resets.
NextDaily ==
    \/ Tick
    \/ \E r \in Req :
         \/ StartDaily(r, 1)
         \/ \E quizDate \in Dates : StartCreateQuestion(r, quizDate, 1, TRUE, Null)
         \/ \E id \in QuestionIds, isActive \in BOOLEAN :
              UpdateQuestion(r, id, [isActive |-> isActive])
         \/ \E id \in QuestionIds, quizDate \in Dates :
              UpdateQuestion(r, id, [quizDate |-> quizDate])
         \/ StartReset(r)
         \/ GetCurrentResetIdSelect(r)
         \/ GetCurrentResetIdInsert(r)
         \/ ResetSelect(r)
         \/ ResetWrite(r)
         \/ CreateQuestionInsert(r)
         \/ DailySelect(r)
         \/ DailyGetSubmission(r)

InitDaily == InitVisStore /\ serial = TRUE

SpecDaily == InitDaily /\ [][NextDaily]_vars

\* ------------------------------------------------------------------ claims: visibility
\* The question a daily response carries (none when the response is null).
Returned == {q \in questions : out.op = "daily" /\ q.id = out.qid}

\* Today's active questions of the current epoch, read off the tables.
TodaysQuestions ==
    {q \in questions : /\ q.quizDate = getTodayDate
                       /\ q.isActive
                       /\ q.resetId \in ReadableEpochs}

\* C8: a daily request reads today's date when it arrives, and its response
\* only carries a Question dated that day, active and of the current epoch;
\* never one of an earlier epoch.
C8_ReturnsTodaysActiveCurrentEpoch ==
    [][\A r \in Req :
         /\ (pc[r] = "idle" /\ loc'[r].op = "daily")
              => loc'[r].date = getTodayDate
         /\ (loc[r].op = "daily" /\ loc'[r].op = "daily")
              => loc'[r].date = loc[r].date
         /\ (loc[r].op = "daily" /\ pc'[r] = "idle" /\ out'.qid # 0)
              => \E q \in questions :
                   /\ q.id = out'.qid
                   /\ q.quizDate = loc[r].date
                   /\ q.isActive
                   /\ q.resetId \in ReadableEpochs]_vars

\* C8, its case: a question is returned while another one, active and dated
\* today, of the epoch before the reset, is in the store.
C8_Witness ==
    /\ out.op = "daily" /\ out.qid # 0
    /\ \E o \in questions :
         /\ o.id # out.qid /\ o.isActive /\ o.quizDate = getTodayDate
         /\ \A e \in ReadableEpochs : o.resetId < e

\* The scheduled slot of a question has opened.
SlotOpen(q) ==
    scheduledTimeOf[q.id] = Null \/ scheduledTimeOf[q.id] <= TimeOfDay

\* The scheduled time as the selection compares it: none counts as "00:00".
SlotKey(q) == IF scheduledTimeOf[q.id] = Null THEN 0 ELSE scheduledTimeOf[q.id]

\* C9: a Question with scheduledTime T is never returned while the wall-clock
\* time is earlier than T (when every slot of today is still to open, the
\* response is null).
C9_NotReturnedBeforeScheduledTime ==
    \A q \in Returned : SlotOpen(q)

\* C10: when several of today's active current-epoch questions are eligible,
\* the one returned has the latest scheduled time (none counting as "00:00"),
\* and the highest day-order among those of that time.
C10_LatestSlotThenOrder ==
    (\A c \in TodaysQuestions : SlotOpen(c)) =>
      \A q \in Returned, c \in TodaysQuestions :
        \/ SlotKey(c) < SlotKey(q)
        \/ SlotKey(c) = SlotKey(q) /\ c.order <= q.order

\* ------------------------------------------------------------------ play workload
\* A store the server reaches by two identify requests and two create-question
\* requests: two participants, two active questions of today with day-orders
\* 1 and 2 and the same correct index, epoch 0.
PlayQuestions(c) ==
    {[id |-> i, quizDate |-> 0, order |-> i, isActive |-> TRUE,
      correctAnswerIndex |-> c, resetId |-> 0] : i \in {1, 2}}

InitPlayStore ==
    /\ settings = <<0>>
    /\ \E c \in {0, 1} : questions = PlayQuestions(c)
    /\ nextQid = 3
    /\ scheduledTimeOf = [q \in QuestionIds |-> Null]
    /\ submissions = {}
    /\ nextSid = 1
    /\ participants = SeedParticipants
    /\ nextPid = 3
    /\ clock = 0
    /\ pc = [r \in Req |-> "idle"]
    /\ loc = [r \in Req |-> NoLoc]
    /\ out = NoOut

\* The requests of two participants, one at a time: both ask for the daily
\* question and participant 1 answers, while the admin switches questions on
\* and off and the days pass.
NextPlay ==
    \/ Tick
    \/ \E r \in Req :
         \/ \E pid \in {1, 2} : StartDaily(r, pid)
         \/ \E qid \in {1, 2}, answerIndex \in AnswerIndexes :
              StartSubmit(r, 1, qid, answerIndex, NoReason)
         \/ \E id \in {1, 2}, isActive \in BOOLEAN :
              UpdateQuestion(r, id, [isActive |-> isActive])
         \/ GetCurrentResetIdSelect(r)
         \/ DailySelect(r)
         \/ DailyGetSubmission(r)
         \/ SubmitGetSubmission(r)
         \/ SubmitGetQuestion(r)
         \/ SubmitAnswerOrder(r)
         \/ SubmitPrevScore(r)
         \/ SubmitInsert(r)

InitPlay == InitPlayStore /\ serial = TRUE

SpecPlay == InitPlay /\ [][NextPlay]_vars

\* ------------------------------------------------------------------ claims: play
\* The active questions of a date and of the current epoch, read off the
\* tables.
QuestionsOf(date) ==
    {q \in questions : /\ q.quizDate = date
                       /\ q.isActive
                       /\ q.resetId \in ReadableEpochs}

\* The questions the resolver may select for a date: those of the highest
\* day-order.
Selectable(date) ==
    {q \in QuestionsOf(date) : \A o \in QuestionsOf(date) : o.order <= q.order}

\* C11: the resolver selects, for the date the request read as today's when it
\* arrived, one of that day's questions of the highest order and,
\* if the requesting participant has a Submission for it, answers None, with
\* no fallback to another question of today; otherwise it answers with the
\* selected question.
C11_AnsweredSelectionYieldsNone ==
    [][\A r \in Req :
         /\ (pc[r] = "idle" /\ loc'[r].op = "daily")
              => loc'[r].date = getTodayDate
         /\ (pc[r] = "daily_select" /\ pc'[r] = "daily_getSubmission")
              => \E q \in Selectable(loc[r].date) : q.id = loc'[r].qid
         /\ (pc[r] = "daily_getSubmission" /\ pc'[r] = "idle")
              => /\ out'.op = "daily" /\ out'.pid = loc[r].pid
                 /\ PairRows(loc[r].pid, loc[r].qid) # {}
                      => out'.qid = 0 /\ out'.body = NoBody
                 /\ PairRows(loc[r].pid, loc[r].qid) = {}
                      => out'.qid = loc[r].qid]_vars

\* C11, its case: None is answered to a participant who has answered the
\* selected question while another question of today is unanswered.
C11_Witness ==
    /\ out.op = "daily" /\ out.qid = 0
    /\ \E q \in Selectable(getTodayDate) : PairRows(out.pid, q.id) # {}
    /\ \E o \in TodaysQuestions : PairRows(out.pid, o.id) = {}

\* What a participant may be sent for a daily request: null, or the public
\* fields of a question.
DailyResponses(pid) ==
    {[NoOut EXCEPT !.op = "daily", !.code = 200, !.pid = pid]}
    \cup {[NoOut EXCEPT !.op = "daily", !.code = 200, !.pid = pid, !.qid = q.id,
                        !.body = [id |-> q.id, quizDate |-> q.quizDate,
                                  order |-> q.order]] : q \in questions}

\* What a participant is sent for a submit, decided by the rows of the pair
\* and the presence of the question alone.
SubmitResponse(pid, qid) ==
    IF PairRows(pid, qid) # {}
      THEN [NoOut EXCEPT !.op = "submit", !.code = 400, !.pid = pid, !.qid = qid,
                         !.body = [message |-> "Already submitted"]]
    ELSE IF \A q \in questions : q.id # qid
      THEN [NoOut EXCEPT !.op = "submit", !.code = 404, !.pid = pid, !.qid = qid,
                         !.body = [message |-> "Question not found"]]
    ELSE [NoOut EXCEPT !.op = "submit", !.code = 200, !.pid = pid, !.qid = qid,
                       !.body = [message |-> "Submitted",
                                 status |-> "Your answer has been recorded successfully."]]

\* C12: no participant-facing response reveals the correct answer: a daily
\* response is null or the id, date and order of a question, never its
\* correctAnswerIndex, and the response to a submit is fixed by the request and
\* by whether the pair has a row and the question exists; it is the same for a
\* correct, a wrong and an unattempted answer.
C12_ResponsesHideCorrectAnswer ==
    [][\A r \in Req :
         /\ (loc[r].op = "daily" /\ pc'[r] = "idle")
              => out' \in DailyResponses(loc[r].pid)
         /\ (loc[r].op = "submit" /\ pc'[r] = "idle")
              => out' = SubmitResponse(loc[r].pid, loc[r].qid)]_vars

\* C12, its case: a submit is answered "Submitted" in a store that holds a
\* correct and a wrong answer.
C12_Witness ==
    /\ out.op = "submit" /\ out.code = 200
    /\ \E s, t \in submissions : s.status = "CORRECT" /\ t.status = "WRONG"
    /\ \E q \in questions : q.correctAnswerIndex = 0

\* ------------------------------------------------------------------ score workload
\* The participants of a crowd: registered after participants 1..MaxParticipants.
CrowdParticipants ==
    {[id |-> MaxParticipants + i, name |-> MaxParticipants + i,
      deviceId |-> MaxParticipants + i, isBanned |-> FALSE] : i \in 1..MaxCrowd}

\* The row the i-th participant of the crowd stored by answering question 1
\* correctly, as the i-th to answer it and with no submission before.
CrowdRow(i) ==
    LET st == status(1, 1) IN
    [id |-> i,
     participantId |-> MaxParticipants + i,
     questionId |-> 1,
     answerIndex |-> 1,
     status |-> st,
     answerOrder |-> i,
     wrongAttemptOrder |-> wrongAttemptOrder,
     baseMarks |-> baseMarks(i),
     deductionMarks |-> deductionMarks(st),
     bonusPercentage |-> bonusPercentage(i),
     extraApplied |-> extraApplied(st, 100),
     finalScore |-> finalScore(st, i, 100),
     isAutoSubmitted |-> FALSE,
     autoSubmitReason |-> NoReason,
     resetId |-> 0]

\* The sizes of the crowd that has answered: where the bonus changes with the
\* answer order, and where the base marks reach their floor.
CrowdSizes == (0..6) \cup ((MaxCrowd - 2)..MaxCrowd)

\* A store the server reaches by identify requests, two create-question
\* requests and the submits of some of the crowd for question 1.
InitScoreStore ==
    /\ settings = <<0>>
    /\ questions = PlayQuestions(1)
    /\ nextQid = 3
    /\ scheduledTimeOf = [q \in QuestionIds |-> Null]
    /\ \E k \in CrowdSizes :
         /\ submissions = {CrowdRow(i) : i \in 1..k}
         /\ nextSid = k + 1
    /\ participants = SeedParticipants \cup CrowdParticipants
    /\ nextPid = MaxParticipants + MaxCrowd + 1
    /\ clock = 0
    /\ pc = [r \in Req |-> "idle"]
    /\ loc = [r \in Req |-> NoLoc]
    /\ out = NoOut

\* Any index a client can send: null, an option, or a number that is none.
AnyAnswerIndexes == AnswerIndexes \cup {7}

\* Any reason a client can send: none, a violation, or the empty string.
AnyReasons == Reasons \cup {""}

\* Participant 1 submits, one request at a time: for question 1, which the
\* crowd has answered, with any answer and reason, and for question 2 with
\* an option or none.
NextScore ==
    \E r \in Req :
      \/ \E answerIndex \in AnyAnswerIndexes, reason \in AnyReasons :
           StartSubmit(r, 1, 1, answerIndex, reason)
      \/ \E answerIndex \in AnswerIndexes :
           StartSubmit(r, 1, 2, answerIndex, NoReason)
      \/ GetCurrentResetIdSelect(r)
      \/ SubmitGetSubmission(r)
      \/ SubmitGetQuestion(r)
      \/ SubmitAnswerOrder(r)
      \/ SubmitPrevScore(r)
      \/ SubmitInsert(r)

InitScore == InitScoreStore /\ serial = TRUE

SpecScore == InitScore /\ [][NextScore]_vars

\* ------------------------------------------------------------------ claims: scoring
\* C13: the status stored by an accepted submit is UNATTEMPTED exactly when
\* the submitted index is null, CORRECT exactly when it is non-null and equal
\* to the question's correctAnswerIndex, and WRONG otherwise; the index stored
\* is the one submitted.
C13_StatusFromAnswerIndex ==
    [][\A r \in Req : \A s \in submissions' \ submissions :
         pc[r] = "submit_insert" =>
           \E q \in questions :
             /\ q.id = s.questionId
             /\ s.answerIndex = loc[r].answerIndex
             /\ s.status = "UNATTEMPTED" <=> s.answerIndex = Null
             /\ s.status = "CORRECT" <=>
                  (s.answerIndex # Null /\ s.answerIndex = q.correctAnswerIndex)
             /\ s.status = "WRONG" <=>
                  (s.answerIndex # Null /\ s.answerIndex # q.correctAnswerIndex)]_vars

\* C13, its case: participant 1 has stored an index that is no option, as
\* WRONG, and a null index or option 0.
C13_Witness ==
    \E s, t \in submissions :
      /\ s.participantId = 1 /\ s.answerIndex = 7 /\ s.status = "WRONG"
      /\ t.participantId = 1 /\ t.answerIndex \in {Null, 0}

\* C14: every persisted Submission has baseMarks max(0, 510 - 10 * answerOrder):
\* 500 at answerOrder 1, 450 at 6, 0 from 51 on, never negative.
C14_BaseMarksFromAnswerOrder ==
    \A s \in submissions :
      /\ s.baseMarks >= 0
      /\ s.answerOrder <= 51 => s.baseMarks + 10 * s.answerOrder = 510
      /\ s.answerOrder >= 51 => s.baseMarks = 0
      /\ s.answerOrder = 1 => s.baseMarks = 500
      /\ s.answerOrder = 6 => s.baseMarks = 450

\* C14, its case: participant 1 answered after 51 others, where 510 - 10 *
\* answerOrder is negative.
C14_Witness ==
    \E s \in submissions :
      s.participantId = 1 /\ s.answerOrder >= 52 /\ s.baseMarks = 0

\* The rows a step adds to the submissions.
Inserted == submissions' \ submissions

\* C15: every persisted Submission has bonusPercentage max(0, 0.7 - 0.1 *
\* answerOrder): 0.6 at answerOrder 1, 0.5 at 2, ..., 0.1 at 6, 0 from 7 on,
\* whatever its status.
C15_BonusFromAnswerOrder ==
    [][\A s \in Inserted :
         s.bonusPercentage =
           [tenths |-> IF s.answerOrder >= 7 THEN 0 ELSE 7 - s.answerOrder,
            deficit |-> 0]]_vars

\* C16: a CORRECT Submission of a participant whose previous score is <= 0
\* has finalScore baseMarks * (1 + bonusPercentage) and extraApplied true, any
\* other CORRECT Submission has finalScore baseMarks and extraApplied false,
\* and no Submission that is not CORRECT has extraApplied true.
C16_CorrectScoreAndExtra ==
    [][\A s \in Inserted :
         /\ s.status = "CORRECT" =>
              IF getPreviousQuestionScore(s.participantId) <= 0
                THEN /\ s.extraApplied
                     /\ s.finalScore =
                          [marks |-> (s.baseMarks
                                      * (IF s.answerOrder >= 7 THEN 10
                                         ELSE 17 - s.answerOrder)) \div 10,
                           deficit |-> 0]
                ELSE /\ ~s.extraApplied
                     /\ s.finalScore = [marks |-> s.baseMarks, deficit |-> 0]
         /\ s.status # "CORRECT" => ~s.extraApplied]_vars

\* C17: every persisted Submission has wrongAttemptOrder 1 and deductionMarks
\* 0, none has a negative finalScore, and a WRONG or UNATTEMPTED one has
\* finalScore 0 at any answerOrder.
C17_WrongAndUnattemptedScoreZero ==
    \A s \in submissions :
      /\ s.wrongAttemptOrder = 1
      /\ s.deductionMarks = 0
      /\ s.finalScore.marks >= 0
      /\ s.status \in {"WRONG", "UNATTEMPTED"}
           => s.finalScore = [marks |-> 0, deficit |-> 0]

\* C17, its case: participant 1 holds a WRONG Submission stored after
\* others had answered, and an UNATTEMPTED one.
C17_Witness ==
    \E s, t \in submissions :
      /\ s.participantId = 1 /\ s.status = "WRONG" /\ s.answerOrder >= 2
      /\ t.participantId = 1 /\ t.status = "UNATTEMPTED"

\* C18: a submit with a forced reason stores answerIndex null, status
\* UNATTEMPTED, finalScore 0, isAutoSubmitted true and the reason, whatever
\* index came with it; and isAutoSubmitted is true only with a reason.
C18_ForcedSubmitStoresNoAnswer ==
    [][\A r \in Req : \A s \in Inserted :
         pc[r] = "submit_insert" =>
           /\ loc[r].reason # NoReason =>
                /\ s.answerIndex = Null
                /\ s.status = "UNATTEMPTED"
                /\ s.finalScore = [marks |-> 0, deficit |-> 0]
                /\ s.isAutoSubmitted
                /\ s.autoSubmitReason = loc[r].reason
           /\ s.isAutoSubmitted => loc[r].reason # NoReason]_vars

\* ------------------------------------------------------------------ board workload
\* Six questions of epoch 0: the first is tomorrow's, the others today's.
BoardQuestions ==
    {[id |-> i, quizDate |-> (IF i = 1 THEN 1 ELSE 0), order |-> i,
      isActive |-> TRUE, correctAnswerIndex |-> 1, resetId |-> 0] : i \in 1..6}

\* The i-th participant of the crowd.
Player(i) == MaxParticipants + i

\* The row an accepted submit stored in an epoch, for a question whose correct
\* answer is 1, given what the handler read.
SeedRow(id, pid, qid, answerIndex, answerOrder, prevScore, resetId) ==
    LET st == status(answerIndex, 1) IN
    [id |-> id,
     participantId |-> pid,
     questionId |-> qid,
     answerIndex |-> answerIndex,
     status |-> st,
     answerOrder |-> answerOrder,
     wrongAttemptOrder |-> wrongAttemptOrder,
     baseMarks |-> baseMarks(answerOrder),
     deductionMarks |-> deductionMarks(st),
     bonusPercentage |-> bonusPercentage(answerOrder),
     extraApplied |-> extraApplied(st, prevScore),
     finalScore |-> finalScore(st, answerOrder, prevScore),
     isAutoSubmitted |-> FALSE,
     autoSubmitReason |-> NoReason,
     resetId |-> resetId]

\* The rows of a history of submits, one request at a time. In epoch 0, k
\* participants answered question 3 and then question 6 correctly, and all of
\* them but the last two went on to answer question 4 correctly. After a
\* reset, players 1, 2 and 3 answered question 1 wrongly; then players 2 and
\* 1 answered question 2 correctly, and player 3 questions 5 and 6.
BoardRows(k) ==
    {SeedRow(i, Player(3 + i), 3, 1, i, 100, 0) : i \in 1..k}
    \cup {SeedRow(k + i, Player(3 + i), 6, 1, i, baseMarks(i), 0) : i \in 1..k}
    \cup {SeedRow(2 * k + i, Player(3 + i), 4, 1, i, baseMarks(i), 0) :
            i \in 1..(k - 2)}
    \cup {SeedRow(3 * k - 1, Player(1), 1, 0, 1, 100, 1),
          SeedRow(3 * k, Player(2), 1, 0, 2, 100, 1),
          SeedRow(3 * k + 1, Player(3), 1, 0, 3, 100, 1),
          SeedRow(3 * k + 2, Player(2), 2, 1, 1, 0, 1),
          SeedRow(3 * k + 3, Player(1), 2, 1, 2, 0, 1),
          SeedRow(3 * k + 4, Player(3), 5, 1, 1, 0, 1),
          SeedRow(3 * k + 5, Player(3), 6, 1, k + 1, 800, 1)}

InitBoardStore ==
    /\ settings = <<1>>
    /\ questions = BoardQuestions
    /\ nextQid = 7
    /\ scheduledTimeOf = [q \in QuestionIds |-> Null]
    /\ \E k \in {BoardCrowd - 1, BoardCrowd} :
         /\ submissions = BoardRows(k)
         /\ nextSid = 3 * k + 6
    /\ participants = SeedParticipants \cup CrowdParticipants
    /\ nextPid = MaxParticipants + MaxCrowd + 1
    /\ clock = 0
    /\ pc = [r \in Req |-> "idle"]
    /\ loc = [r \in Req |-> NoLoc]
    /\ out = NoOut

\* The answers the players of the board workload send: player 1 any option
\* for question 3 and the right one for question 4, player 2 the right one
\* for question 3 and a wrong one for question 4.
BoardAnswers(i, qid) ==
    CASE i = 1 /\ qid = 3 -> {0, 1}
      [] i = 1 /\ qid = 4 -> {1}
      [] i = 2 /\ qid = 3 -> {1}
      [] OTHER -> {0}

\* Players 1 and 2 answer questions 3 and 4 and the admin reads the
\* leaderboard of either type with a date or none, one request at a time,
\* while the days pass.
NextBoard ==
    \/ Tick
    \/ \E r \in Req :
         \/ \E i \in {1, 2}, qid \in {3, 4} :
              \E answerIndex \in BoardAnswers(i, qid) :
                StartSubmit(r, Player(i), qid, answerIndex, NoReason)
         \/ \E type \in {"daily", "monthly"}, date \in Dates \cup {Null} :
              StartLeaderboard(r, type, date)
         \/ GetCurrentResetIdSelect(r)
         \/ SubmitGetSubmission(r)
         \/ SubmitGetQuestion(r)
         \/ SubmitAnswerOrder(r)
         \/ SubmitPrevScore(r)
         \/ SubmitInsert(r)
         \/ LeaderboardQuery(r)

InitBoard == InitBoardStore /\ serial = TRUE

SpecBoard == InitBoard /\ [][NextBoard]_vars

\* ------------------------------------------------------------------ claims: leaderboard
\* By the keys of the leaderboard order, entry a belongs before entry b: the
\* greater total score, then the greater correct count, then the lesser
\* average answer order.
Outranks(a, b) ==
    \/ Higher(a.totalScore, b.totalScore)
    \/ /\ a.totalScore = b.totalScore
       /\ a.correctCount > b.correctCount
    \/ /\ a.totalScore = b.totalScore
       /\ a.correctCount = b.correctCount
       /\ a.sumAnswerOrder * b.count < b.sumAnswerOrder * a.count

\* C19: in a leaderboard response the entry at position i has rank i, and no
\* entry comes after one it belongs before by total score descending, then
\* correct count descending, then average answer order ascending.
C19_OrderedAndRankedByPosition ==
    out.op = "board" =>
      /\ \A i \in DOMAIN out.ranked : out.ranked[i].rank = i
      /\ \A i, j \in DOMAIN out.ranked :
           i < j => ~Outranks(out.ranked[j], out.ranked[i])

\* The entries are one per participant with a row in scope, each with the
\* sum of the final scores (as the nearest double), the number of CORRECT
\* rows and the mean answer order of that participant's rows in scope.
EntriesAggregate(entries, scope) ==
    /\ {entries[i].participantName : i \in DOMAIN entries}
         = {p.name : p \in {x \in participants :
                              \E s \in scope : s.participantId = x.id}}
    /\ \A i, j \in DOMAIN entries :
         entries[i].participantName = entries[j].participantName => i = j
    /\ \A i \in DOMAIN entries :
         \E p \in participants :
           /\ p.name = entries[i].participantName
           /\ LET mine == {s \in scope : s.participantId = p.id} IN
              /\ mine # {}
              /\ entries[i].totalScore
                   = JsNumber([marks |-> SumOf(mine, "finalScore.marks"),
                               deficit |-> SumOf(mine, "finalScore.deficit")])
              /\ entries[i].correctCount
                   = Cardinality({s \in mine : s.status = "CORRECT"})
              /\ entries[i].sumAnswerOrder * Cardinality(mine)
                   = SumOf(mine, "answerOrder") * entries[i].count

\* The Submissions of the current epoch whose question is of the date, when
\* byDate holds, and of any date otherwise.
InScope(byDate, date) ==
    {s \in submissions :
       /\ s.resetId \in ReadableEpochs
       /\ byDate => \E q \in questions : q.id = s.questionId /\ q.quizDate = date}

\* C20 as stated: a leaderboard response aggregates, per participant, the
\* Submissions of the current epoch, of the questions of the request's date
\* when the request gives one and of the whole epoch when it gives none.
C20_AggregatesScopeByDateGiven ==
    [][\A r \in Req :
         (pc[r] = "board_query" /\ pc'[r] = "idle") =>
           EntriesAggregate(out'.ranked,
                            InScope(loc[r].dateGiven, loc[r].date))]_vars

\* C20, amended: a leaderboard response aggregates, per participant, the
\* Submissions of the current epoch: when the request's type is "daily" (or
\* absent), those of the questions of the request's date, or of today's when
\* it gives none; when the type is "monthly", those of the whole epoch,
\* whatever date the request gives. Today's date is the one read when the
\* request arrives.
C20_AggregatesScopeByType ==
    [][\A r \in Req :
         /\ (pc[r] = "idle" /\ loc'[r].op = "board" /\ ~loc'[r].dateGiven)
              => loc'[r].date = getTodayDate
         /\ (pc[r] = "board_query" /\ pc'[r] = "idle")
              => EntriesAggregate(out'.ranked,
                                  InScope(loc[r].type = "daily", loc[r].date))]_vars

\* C20, its case: a leaderboard response of two entries or more, one of them
\* over fewer rows than its participant has in the current epoch.
C20_Witness ==
    /\ out.op = "board"
    /\ Len(out.ranked) >= 2
    /\ \E i \in DOMAIN out.ranked, p \in participants :
         /\ p.name = out.ranked[i].participantName
         /\ out.ranked[i].count
              < Cardinality({s \in submissions : s.participantId = p.id
                                                  /\ s.resetId \in ReadableEpochs})

\* ------------------------------------------------------------------ catalog workload
\* Submit requests of two participants for the seeded question and delete
\* requests for it, handled concurrently.
NextCatalog ==
    \E r \in Req :
      \/ \E pid \in {1, 2}, answerIndex \in AnswerIndexes :
           StartSubmit(r, pid, 1, answerIndex, NoReason)
      \/ StartDeleteQuestion(r, 1)
      \/ GetCurrentResetIdSelect(r)
      \/ DeleteSubmissionsByQuestion(r)
      \/ DeleteQuestion(r)
      \/ SubmitGetSubmission(r)
      \/ SubmitGetQuestion(r)
      \/ SubmitAnswerOrder(r)
      \/ SubmitPrevScore(r)
      \/ SubmitInsert(r)

InitCatalog == InitLedgerStore /\ serial = FALSE

SpecCatalog == InitCatalog /\ [][NextCatalog]_vars

\* ------------------------------------------------------------------ claims: catalog
\* The Submissions that reference the question a request names.
Referencing(r) == {s \in submissions : s.questionId = loc[r].qid}

\* C21 as stated: no step of a delete-question request for a Question that
\* Submissions reference removes the Question or any Submission.
C21_DeleteRequestKeepsReferencedQuestion ==
    [][\A r \in Req :
         (loc[r].op = "delete" /\ pc'[r] # pc[r] /\ Referencing(r) # {}) =>
           /\ questions' = questions
           /\ submissions' = submissions]_vars

\* C21, amended: the deleteQuestion step is rejected (500) and changes no
\* table while a Submission references the Question, and otherwise removes
\* that Question alone; Submissions disappear in the deleteSubmissions step
\* only, which the delete-question request itself takes first and which
\* removes the Submissions of that Question and no others.
C21_DeleteQuestionBlockedWhileReferenced ==
    [][/\ \A r \in Req :
            (pc[r] = "delete_question" /\ pc'[r] = "idle") =>
              /\ submissions' = submissions
              /\ out'.op = "delete"
              /\ IF Referencing(r) # {}
                   THEN out'.code = 500 /\ questions' = questions
                   ELSE /\ out'.code = 204
                        /\ questions' = {q \in questions : q.id # loc[r].qid}
       /\ \A r \in Req :
            (pc[r] = "delete_submissions" /\ pc'[r] # pc[r]) =>
              /\ pc'[r] = "delete_question"
              /\ questions' = questions
              /\ submissions' = submissions \ Referencing(r)
       /\ (submissions \ submissions' # {}) =>
            \E r \in Req : pc[r] = "delete_submissions" /\ pc'[r] # pc[r]]_vars

\* C21, its case: a delete-question request was answered 500 and the Question
\* is in the store with a Submission that references it.
C21_Witness ==
    /\ out.op = "delete" /\ out.code = 500
    /\ \E q \in questions, s \in submissions :
         q.id = out.qid /\ s.questionId = q.id

\* ------------------------------------------------------------------ identify workload
\* Identify requests of any name and device, handled concurrently, against
\* a store without participants.
NextIdentify ==
    \E r \in Req :
      \/ \E name \in Names, deviceId \in Devices : StartIdentify(r, name, deviceId)
      \/ IdentifyByName(r)
      \/ IdentifyByDevice(r)
      \/ IdentifyCreate(r)

InitIdentify == InitStore /\ serial = FALSE

SpecIdentify == InitIdentify /\ [][NextIdentify]_vars

\* ------------------------------------------------------------------ claims: participants
\* No two records of a participants table share a name or a device.
Bijective(table) ==
    \A p, q \in table :
      (p.name = q.name \/ p.deviceId = q.deviceId) => p = q

\* C22: no two Participant records ever share a name or a device; an
\* identify request answered 403 leaves the participants table as it was;
\* and no step changes or removes an existing Participant record.
C22_NameDeviceBijective ==
    [][/\ Bijective(participants')
       /\ (out'.op = "identify" /\ out'.code = 403) => participants' = participants
       /\ participants \subseteq participants']_vars

\* ------------------------------------------------------------------ ban workload
\* A store the server reaches by one identify request and one create-question
\* request, where the participant's is_banned column has then been set or not.
InitBanStore ==
    /\ settings = <<0>>
    /\ questions = SeedQuestions
    /\ nextQid = 2
    /\ scheduledTimeOf = [q \in QuestionIds |-> Null]
    /\ submissions = {}
    /\ nextSid = 1
    /\ \E banned \in BOOLEAN :
         participants = {[id |-> 1, name |-> 1, deviceId |-> 1,
                          isBanned |-> banned]}
    /\ nextPid = 2
    /\ clock = 0
    /\ pc = [r \in Req |-> "idle"]
    /\ loc = [r \in Req |-> NoLoc]
    /\ out = NoOut

\* Identify requests of any name and device, and daily-question and submit
\* requests with the token of participant 1; one request at a time.
NextBan ==
    \E r \in Req :
      \/ \E name \in Names, deviceId \in Devices : StartIdentify(r, name, deviceId)
      \/ StartDaily(r, 1)
      \/ \E answerIndex \in AnswerIndexes, reason \in Reasons :
           StartSubmit(r, 1, 1, answerIndex, reason)
      \/ IdentifyByName(r)
      \/ IdentifyByDevice(r)
      \/ IdentifyCreate(r)
      \/ GetCurrentResetIdSelect(r)
      \/ DailySelect(r)
      \/ DailyGetSubmission(r)
      \/ SubmitGetSubmission(r)
      \/ SubmitGetQuestion(r)
      \/ SubmitAnswerOrder(r)
      \/ SubmitPrevScore(r)
      \/ SubmitInsert(r)

InitBan == InitBanStore /\ serial = TRUE

SpecBan == InitBan /\ [][NextBan]_vars

\* The participant of this id is flagged banned.
Banned(pid) == \E p \in participants : p.id = pid /\ p.isBanned

\* C23: no identify of a banned participant succeeds, no daily-question
\* response to a banned participant carries a question, and no Submission is
\* inserted for a banned participant.
C23_BannedParticipantRejected ==
    [][/\ (out'.op = "identify" /\ out'.code = 200) => ~Banned(out'.pid)
       /\ (out'.op = "daily" /\ Banned(out'.pid)) => out'.body = NoBody
       /\ \A s \in Inserted : ~Banned(s.participantId)]_vars

\* ------------------------------------------------------------------ epoch workload
\* A store the server reaches by two identify requests: two participants, and
\* no settings record yet (getCurrentResetId has never run).
InitEpochStore ==
    /\ settings = << >>
    /\ questions = {}
    /\ nextQid = 1
    /\ scheduledTimeOf = [q \in QuestionIds |-> Null]
    /\ submissions = {}
    /\ nextSid = 1
    /\ participants = SeedParticipants
    /\ nextPid = 3
    /\ clock = 0
    /\ pc = [r \in Req |-> "idle"]
    /\ loc = [r \in Req |-> NoLoc]
    /\ out = NoOut

\* Resets, creations of an active question of today and submits of
\* participant 1 for the first question, handled concurrently.
NextEpoch ==
    \E r \in Req :
      \/ StartReset(r)
      \/ StartCreateQuestion(r, 0, 1, TRUE, Null)
      \/ StartSubmit(r, 1, 1, 1, NoReason)
      \/ GetCurrentResetIdSelect(r)
      \/ GetCurrentResetIdInsert(r)
      \/ ResetSelect(r)
      \/ ResetWrite(r)
      \/ CreateQuestionInsert(r)
      \/ SubmitGetSubmission(r)
      \/ SubmitGetQuestion(r)
      \/ SubmitAnswerOrder(r)
      \/ SubmitPrevScore(r)
      \/ SubmitInsert(r)

InitEpoch == InitEpochStore /\ serial = FALSE

SpecEpoch == InitEpoch /\ [][NextEpoch]_vars

\* ------------------------------------------------------------------ claims: concurrent epoch
\* C24: the write of every performReset, also of one that runs concurrently
\* with another, moves the current epoch forward: the id it returns is
\* greater than every epoch that was current before the write (so no two
\* resets return the same id) and is current after it.
C24_ConcurrentResetsKeepIncrements ==
    [][\A r \in Req :
         (pc[r] = "reset_write" /\ pc'[r] = "idle") =>
           /\ out'.op = "reset"
           /\ \A e \in ReadableEpochs : out'.val > e
           /\ out'.val \in ReadableEpochs']_vars

\* C25: the settings table never holds more than one record, and every read
\* of the current epoch finds the same value.
C25_SingleSettingsRecord ==
    /\ Len(settings) <= 1
    /\ Cardinality(ReadableEpochs) = 1

\* C26: every Question and every Submission is inserted with the epoch that
\* is current at the step that inserts it.
C26_RowsTaggedWithEpochAtInsert ==
    [][/\ \A q \in questions' \ questions : q.resetId \in ReadableEpochs
       /\ \A s \in Inserted : s.resetId \in ReadableEpochs]_vars

\* ------------------------------------------------------------------ recovery workload
\* A store the server reaches by four identify requests and three
\* create-question requests, its requests handled one at a time: three of today's questions,
\* of epoch 0, none answered yet.
InitRecovery ==
    /\ serial = TRUE
    /\ settings = <<0>>
    /\ questions = {[id |-> i, quizDate |-> 0, order |-> i, isActive |-> TRUE,
                     correctAnswerIndex |-> 1, resetId |-> 0] :
                      i \in {1, 2, 3}}
    /\ nextQid = 4
    /\ scheduledTimeOf = [q \in QuestionIds |-> Null]
    /\ submissions = {}
    /\ nextSid = 1
    /\ participants =
         SeedParticipants \cup {p \in CrowdParticipants : p.id <= Player(2)}
    /\ nextPid = Player(2) + 1
    /\ clock = 0
    /\ pc = [r \in Req |-> "idle"]
    /\ loc = [r \in Req |-> NoLoc]
    /\ out = NoOut

\* Player 1 answers the three questions in any order (question 1 correctly
\* or, the time up, with no answer; questions 2 and 3 correctly or wrongly)
\* and player 2 answers question 1 correctly, between resets; one request at
\* a time.
NextRecovery ==
    \E r \in Req :
      \/ \E qid \in {1, 2, 3} :
           \E answerIndex \in (IF qid = 1 THEN {Null, 1} ELSE {0, 1}) :
             StartSubmit(r, Player(1), qid, answerIndex, NoReason)
      \/ StartSubmit(r, Player(2), 1, 1, NoReason)
      \/ StartReset(r)
      \/ GetCurrentResetIdSelect(r)
      \/ ResetSelect(r)
      \/ ResetWrite(r)
      \/ SubmitGetSubmission(r)
      \/ SubmitGetQuestion(r)
      \/ SubmitAnswerOrder(r)
      \/ SubmitPrevScore(r)
      \/ SubmitInsert(r)

SpecRecovery == InitRecovery /\ [][NextRecovery]_vars

\* ------------------------------------------------------------------ claims: recovery bonus
\* The Submissions of the participant of s that are in the store.
Earlier(s) == {o \in submissions : o.participantId = s.participantId}

\* C27: with requests handled one at a time, an inserted Submission has
\* extraApplied exactly when it is CORRECT and the participant's latest
\* Submission before it, of any question and any epoch and however many came
\* before that one, has a final score of 0 or less; the first Submission of
\* a participant never has it.
C27_ExtraFollowsLatestSubmission ==
    [][\A s \in Inserted :
         IF Earlier(s) = {} THEN ~s.extraApplied
         ELSE \A o \in Earlier(s) :
                (\A x \in Earlier(s) : x.id <= o.id) =>
                  (s.extraApplied <=>
                     (s.status = "CORRECT" /\ o.finalScore.marks <= 0))]_vars

\* C27, its case: a participant's CORRECT Submission with the extra applied,
\* their third: the Submission right before it, of the epoch before, scored
\* 0, though the one before that scored more.
C27_Witness ==
    \E s, o, p \in submissions :
      /\ o.participantId = s.participantId /\ p.participantId = s.participantId
      /\ p.id < o.id /\ o.id < s.id
      /\ \A x \in submissions :
           (x.participantId = s.participantId /\ x.id < s.id) => x.id <= o.id
      /\ p.finalScore.marks > 0
      /\ o.finalScore.marks = 0 /\ o.status # "CORRECT"
      /\ o.resetId < s.resetId
      /\ s.status = "CORRECT" /\ s.extraApplied

\* ------------------------------------------------------------------ gate workload
\* A store the server reaches by two identify requests and one create-question
\* request (and an update of isActive): one question of epoch 0, of today or
\* tomorrow, active or not, with or without a scheduled time.
InitGateStore ==
    /\ settings = <<0>>
    /\ \E quizDate \in Dates, isActive \in BOOLEAN :
         questions = {[id |-> 1, quizDate |-> quizDate, order |-> 1,
                       isActive |-> isActive, correctAnswerIndex |-> 1,
                       resetId |-> 0]}
    /\ nextQid = 2
    /\ \E scheduledTime \in {Null} \cup Times :
         scheduledTimeOf = [q \in QuestionIds |->
                              IF q = 1 THEN scheduledTime ELSE Null]
    /\ submissions = {}
    /\ nextSid = 1
    /\ participants = SeedParticipants
    /\ nextPid = 3
    /\ clock = 0
    /\ pc = [r \in Req |-> "idle"]
    /\ loc = [r \in Req |-> NoLoc]
    /\ out = NoOut

\* Participants 1 and 2 submit an answer for the question, between resets
\* and clock ticks; one request at a time.
NextGate ==
    \/ Tick
    \/ \E r \in Req :
         \/ \E pid \in {1, 2}, answerIndex \in {0, 1} :
              StartSubmit(r, pid, 1, answerIndex, NoReason)
         \/ StartReset(r)
         \/ GetCurrentResetIdSelect(r)
         \/ ResetSelect(r)
         \/ ResetWrite(r)
         \/ SubmitGetSubmission(r)
         \/ SubmitGetQuestion(r)
         \/ SubmitAnswerOrder(r)
         \/ SubmitPrevScore(r)
         \/ SubmitInsert(r)

InitGate == InitGateStore /\ serial = TRUE

SpecGate == InitGate /\ [][NextGate]_vars

\* ------------------------------------------------------------------ claims: submit gate
\* C28: a Submission is inserted only for a Question that is active, dated
\* today, of the current epoch, and whose scheduled slot has opened.
C28_SubmitOnlyForVisibleQuestion ==
    [][\A s \in Inserted :
         \E q \in questions :
           /\ q.id = s.questionId
           /\ q.isActive
           /\ q.quizDate = getTodayDate
           /\ q.resetId \in ReadableEpochs
           /\ SlotOpen(q)]_vars

\* C29: an inserted Submission has a bonus percentage of 60% at most, and one
\* with answerOrder 6 or more has bonus percentage 0 and a final score no
\* greater than its base marks.
C29_BonusForFiveQuickestOnly ==
    [][\A s \in Inserted :
         /\ s.bonusPercentage.tenths <= 6
         /\ s.answerOrder >= 6 =>
              /\ s.bonusPercentage = [tenths |-> 0, deficit |-> 0]
              /\ s.finalScore.marks <= s.baseMarks]_vars

\* C30: every Submission has the epoch tag of the Question it references.
C30_SubmissionEpochIsQuestionEpoch ==
    \A s \in submissions, q \in questions :
      q.id = s.questionId => s.resetId = q.resetId

====
